---- MODULE Spec2Model ----
(***************************************************************************)
(* Model of gemini/graph.py: the bucket scan and the connected-components  *)
(* traversal of find_connected_components, the CommunitiesModel tree       *)
(* encoding, and detect_communities with its CommunityDetector.            *)
(*                                                                         *)
(* Python lists are sequences (1-based here); element ids and bucket       *)
(* indices keep the program's 0-based values, so buckets[b] of the program *)
(* is buckets[b + 1] here.                                                 *)
(***************************************************************************)
EXTENDS Integers, Sequences, FiniteSets, TLC

\* Largest number of (element, bucket) incidences (fetched rows) of the
\* bucket lists the traversal is run on.
MaxRows == 5

\* Largest number of incidences of the models detect_communities loads.
MaxIncidences == 4

VARIABLES
    \* ---- find_connected_components, the scan of lines 65-86
    num_hashtables,                 \* len(hashtables)
    hashtable,                      \* index of the hashtable being scanned
    rows_left,                      \* rows the store still holds (bounds the scan)
    band,                           \* band value of the previous row, or NoBand
    bucket,                         \* the bucket being filled
    element_ids,                    \* sha1 -> element id
    seen_bands,                     \* history: band values of the closed runs of this hashtable
    ungrouped,                      \* history: some band value came back after its run ended
    cc_error,                       \* the exception that ended the run, or NoError
    \* ---- find_connected_components, lines 88-129
    buckets,                        \* list of buckets, each a list of element ids
    element_to_buckets,             \* element id -> list of bucket indices
    unvisited_buckets,              \* set of bucket indices
    pending,                        \* set of bucket indices (the worklist)
    cc_id,                          \* connected component counter
    connected_components_element,   \* cc id -> set of element ids (defaultdict)
    expanded,                       \* history: bucket index -> times popped from pending
    pc_cc,                          \* position in find_connected_components
    \* ---- ConnectedComponentsModel (written by one stage, loaded by the next)
    id_to_cc,                       \* element id -> component id
    id_to_buckets,                  \* CSR rows: element id -> list of bucket indices
    \* ---- detect_communities, lines 170-239
    args_edges,                     \* args.edges
    args_algorithm,                 \* args.algorithm
    args_no_spark,                  \* args.no_spark
    ccs,                            \* ccs.values(): vertex lists, in insertion order
    fat_ccs,                        \* components of 3 and more elements
    graphs,                         \* the graphs built so far
    communities,                    \* list of communities, each a list of ids
    detector_calls,                 \* history: indices of the graphs the detector was called on
    saved,                          \* communities of the written CommunitiesModel, or NoModel
    error,                          \* the exception that ended the run, or NoError
    pc_dc,                          \* position in detect_communities
    \* ---- CommunitiesModel, lines 148-167
    model_communities,              \* CommunitiesModel.communities
    tree,                           \* what _generate_tree returned, or NoTree
    loaded_communities,             \* communities of the model _load_tree filled
    pc_tree                         \* position in the save / load round trip

ccVars == <<buckets, element_to_buckets, unvisited_buckets, pending, cc_id,
            connected_components_element, expanded, pc_cc>>

modelVars == <<id_to_cc, id_to_buckets>>

dcVars == <<args_edges, args_algorithm, args_no_spark, ccs, fat_ccs, graphs,
            communities, detector_calls, saved, error, pc_dc>>

scanVars == <<num_hashtables, hashtable, rows_left, band, bucket, element_ids,
              seen_bands, ungrouped, cc_error>>

treeVars == <<model_communities, tree, loaded_communities, pc_tree>>

vars == <<scanVars, ccVars, modelVars, dcVars, treeVars>>

None == "None"

\* band = NoBand, line 71; the band values of the rows are 1 and above
NoBand == 0

NoTree == "NoTree"

NoModel == "NoModel"

NoError == "NoError"

\* The stage is not running.
IdleCC ==
    /\ buckets = << >>
    /\ element_to_buckets = << >>
    /\ unvisited_buckets = {}
    /\ pending = {}
    /\ cc_id = 0
    /\ connected_components_element = << >>
    /\ expanded = << >>
    /\ pc_cc = "idle"

IdleScan ==
    /\ num_hashtables = 0
    /\ hashtable = 0
    /\ rows_left = 0
    /\ band = NoBand
    /\ bucket = << >>
    /\ element_ids = << >>
    /\ seen_bands = {}
    /\ ungrouped = FALSE
    /\ cc_error = NoError

IdleTree ==
    /\ model_communities = << >>
    /\ tree = NoTree
    /\ loaded_communities = << >>
    /\ pc_tree = "idle"

IdleDC ==
    /\ args_edges = "none"
    /\ args_algorithm = "none"
    /\ args_no_spark = TRUE
    /\ ccs = << >>
    /\ fat_ccs = << >>
    /\ graphs = << >>
    /\ communities = << >>
    /\ detector_calls = << >>
    /\ saved = NoModel
    /\ error = NoError
    /\ pc_dc = "idle"

----------------------------------------------------------------------------
\* Generic helpers

Range(s) == {s[i] : i \in DOMAIN s}

Max(S) == CHOOSE x \in S : \A y \in S : y <= x

Min(S) == CHOOSE x \in S : \A y \in S : x <= y

RECURSIVE SortedSeq(_)
SortedSeq(S) == IF S = {} THEN <<>> ELSE <<Min(S)>> \o SortedSeq(S \ {Min(S)})

RECURSIVE SumLen(_)
SumLen(ss) == IF ss = <<>> THEN 0 ELSE Len(Head(ss)) + SumLen(Tail(ss))

----------------------------------------------------------------------------
\* Inputs: the bucket lists the scan of lines 65-86 can leave behind.
\* Element ids are handed out in first-seen order (line 74), so the ids that
\* are new in a bucket are the next unused ones; every bucket is non-empty
\* (lines 76-84 append a bucket only after a row was put into it).

RECURSIVE ListsFrom(_, _, _)
ListsFrom(l, k, r) ==
    {l} \cup UNION { UNION {
        IF Cardinality(old) + m >= 1 /\ Cardinality(old) + m <= r
        THEN ListsFrom(Append(l, SortedSeq(old \cup (k..(k + m - 1)))),
                       k + m, r - Cardinality(old) - m)
        ELSE {} : m \in 0..r } : old \in SUBSET (0..(k - 1)) }

\* Scenario A: hashtable 0 gives {a,b},{c,d}; hashtable 1 gives {a,c},{b,d}.
ScenarioA == << <<0, 1>>, <<2, 3>>, <<0, 2>>, <<1, 3>> >>

BucketLists == (ListsFrom(<<>>, 0, MaxRows) \ {<<>>}) \cup {ScenarioA}

\* len(element_ids): every element id was put into some bucket.
NumElements(bs) == Cardinality(UNION {Range(bs[i]) : i \in DOMAIN bs})

ElementIds(bs) == 0..(NumElements(bs) - 1)

BucketIds(bs) == 0..(Len(bs) - 1)

\* lines 88-91: bucket i is appended once for every occurrence of the
\* element in it, buckets in increasing order
ElementToBuckets(bs) ==
    [e \in ElementIds(bs) |->
        LET RECURSIVE Scan(_)
            Scan(i) ==
                IF i > Len(bs) THEN << >>
                ELSE [j \in 1..Cardinality({p \in DOMAIN bs[i] : bs[i][p] = e}) |-> i - 1]
                     \o Scan(i + 1)
        IN Scan(1)]

----------------------------------------------------------------------------
\* find_connected_components: the traversal, lines 106-124

\* lines 106-109
InitCC ==
    /\ buckets \in BucketLists
    /\ element_to_buckets = ElementToBuckets(buckets)
    /\ unvisited_buckets = BucketIds(buckets)
    /\ pending = {}
    /\ cc_id = 0
    /\ connected_components_element = << >>
    /\ expanded = [b \in BucketIds(buckets) |-> 0]
    /\ pc_cc = "outer"
    /\ id_to_cc = << >>
    /\ id_to_buckets = << >>
    /\ IdleScan
    /\ IdleDC
    /\ IdleTree

\* A bug the exactly-once claims must notice: the seed stays unvisited.
SeedRestKeepsSeed(unvisited, b) == unvisited

\* line 111: set.pop() removes the element it returns
SeedRest(unvisited, b) == unvisited \ {b}

\* lines 110-111: while unvisited_buckets: pending = {unvisited_buckets.pop()}
SeedComponent ==
    /\ pc_cc = "outer"
    /\ unvisited_buckets # {}
    /\ \E b \in unvisited_buckets :
          /\ pending' = {b}
          /\ unvisited_buckets' = SeedRest(unvisited_buckets, b)
    /\ pc_cc' = "inner"
    /\ UNCHANGED <<buckets, element_to_buckets, cc_id,
                   connected_components_element, expanded>>
    /\ UNCHANGED <<scanVars, modelVars, dcVars, treeVars>>

\* A bug the connectivity claim must notice: only the first bucket of each
\* element is followed.
NewlyReachedFirstOnly(elements, unvisited) ==
    {b \in unvisited : \E e \in elements :
        element_to_buckets[e] # <<>> /\ element_to_buckets[e][1] = b}

\* lines 116-121: the unvisited buckets of the elements of the popped bucket
NewlyReached(elements, unvisited) ==
    {b \in unvisited : \E e \in elements : b \in Range(element_to_buckets[e])}

\* defaultdict(set): connected_components_element[cc].update(elements)
UpdateComponent(cce, cc, elements) ==
    IF cc \in DOMAIN cce
    THEN [cce EXCEPT ![cc] = @ \cup elements]
    ELSE cce @@ (cc :> elements)

\* lines 112-121: one turn of "while pending"
ExpandBucket ==
    /\ pc_cc = "inner"
    /\ pending # {}
    /\ \E popped \in pending :         \* bucket = pending.pop()
          LET elements == Range(buckets[popped + 1])
              reached == NewlyReached(elements, unvisited_buckets)
          IN /\ connected_components_element' =
                    UpdateComponent(connected_components_element, cc_id, elements)
             /\ pending' = (pending \ {popped}) \cup reached
             /\ unvisited_buckets' = unvisited_buckets \ reached
             /\ expanded' = [expanded EXCEPT ![popped] = @ + 1]
    /\ UNCHANGED <<buckets, element_to_buckets, cc_id, pc_cc>>
    /\ UNCHANGED <<scanVars, modelVars, dcVars, treeVars>>

\* lines 112, 122-123: the worklist is empty, the component is complete
CloseComponent ==
    /\ pc_cc = "inner"
    /\ pending = {}
    /\ cc_id' = cc_id + 1
    /\ pc_cc' = "outer"
    /\ UNCHANGED <<buckets, element_to_buckets, unvisited_buckets, pending,
                   connected_components_element, expanded>>
    /\ UNCHANGED <<scanVars, modelVars, dcVars, treeVars>>

\* ConnectedComponentsModel.construct, lines 25-28: zeros, then every
\* component writes its id over its elements, in the dict's insertion order.
\* (uint32 keeps every id the bounds allow; they are far below 2^32.)
\* Lines 32-40 store element_to_buckets row by row as the CSR id_to_buckets.
ConstructIdToCc(cce, n) ==
    [i \in 0..(n - 1) |->
        LET owners == {cc \in DOMAIN cce : i \in cce[cc]}
        IN IF owners = {} THEN 0 ELSE Max(owners)]

\* lines 110, 124-129: no unvisited bucket is left, the model is written
WriteModel ==
    /\ pc_cc = "outer"
    /\ unvisited_buckets = {}
    /\ id_to_cc' = ConstructIdToCc(connected_components_element,
                                   NumElements(buckets))
    /\ id_to_buckets' = element_to_buckets
    /\ pc_cc' = "done"
    /\ UNCHANGED <<buckets, element_to_buckets, unvisited_buckets, pending,
                   cc_id, connected_components_element, expanded>>
    /\ UNCHANGED <<scanVars, dcVars, treeVars>>

NextCC ==
    \/ SeedComponent
    \/ ExpandBucket
    \/ CloseComponent
    \/ WriteModel

\* The traversal is a sequential loop: it always takes its next step.
SpecCC == InitCC /\ [][NextCC]_vars /\ WF_vars(NextCC)

----------------------------------------------------------------------------
\* Connectivity of the bipartite element/bucket graph, stated without the
\* worklist: the least set of elements that holds S and is closed under
\* "shares a bucket with".

RECURSIVE LinkedClosure(_, _)
LinkedClosure(S, bs) ==
    LET T == S \cup UNION {Range(bs[i]) : i \in {j \in DOMAIN bs : Range(bs[j]) \cap S # {}}}
    IN IF T = S THEN S ELSE LinkedClosure(T, bs)

\* The elements linked to x by a chain of shared buckets.
LinkedTo(x, bs) == LinkedClosure({x}, bs)

ComponentSets == {connected_components_element[c] : c \in DOMAIN connected_components_element}

\* C1: once the traversal is over, two element ids have the same component id
\* exactly when a chain of shared buckets links them; the component sets are
\* the classes of that relation, pairwise disjoint, and every element id lies
\* in exactly one of them.
C1_ComponentsAreConnectedComponents ==
    pc_cc = "done" =>
        /\ DOMAIN id_to_cc = ElementIds(buckets)
        /\ \A x, y \in ElementIds(buckets) :
              (id_to_cc[x] = id_to_cc[y]) <=> (y \in LinkedTo(x, buckets))
        /\ ComponentSets = {LinkedTo(x, buckets) : x \in ElementIds(buckets)}
        /\ \A c, d \in DOMAIN connected_components_element :
              c # d => connected_components_element[c] \cap connected_components_element[d] = {}
        /\ \A x \in ElementIds(buckets) :
              Cardinality({c \in DOMAIN connected_components_element :
                              x \in connected_components_element[c]}) = 1
        /\ \A x \in ElementIds(buckets) : x \in connected_components_element[id_to_cc[x]]

\* Scenario A traversed: one component holding all 4 elements.
C1_Witness ==
    /\ pc_cc = "done"
    /\ buckets = ScenarioA
    /\ DOMAIN connected_components_element = {0}
    /\ connected_components_element[0] = {0, 1, 2, 3}
    /\ id_to_cc = [i \in 0..3 |-> 0]

TraversalDone == pc_cc = "done"

----------------------------------------------------------------------------
\* detect_communities, lines 170-239, and CommunityDetector, lines 242-266

\* getattr(graph, "community_" + algorithm) finds a method of igraph.Graph
KnownAlgorithms == {"walktrap"}

Algorithms == KnownAlgorithms \cup {"no_such_algorithm"}

EdgeModes == {"linear", "quadratic"}

\* Two components of 3 elements each: two graphs for the detector.
TwoFatComponents == << <<0, 1, 2>>, <<3, 4, 5>> >>

DetectInputs ==
    (ListsFrom(<< >>, 0, MaxIncidences) \ {<< >>}) \cup {ScenarioA, TwoFatComponents}

\* lines 116-121 over a given incidence index
NewlyReachedIn(e2b, elements, unvisited) ==
    {b \in unvisited : \E e \in elements : b \in Range(e2b[e])}

\* lines 106-124 with set.pop() returning the least member: one of the runs
\* of the traversal, used to produce the model the next stage loads.
RECURSIVE TraverseFrom(_, _, _, _, _)
TraverseFrom(bs, unvisited, pend, cc, cce) ==
    IF pend # {}
    THEN LET popped == Min(pend)
             elements == Range(bs[popped + 1])
             reached == NewlyReachedIn(ElementToBuckets(bs), elements, unvisited)
         IN TraverseFrom(bs, unvisited \ reached, (pend \ {popped}) \cup reached,
                         cc, UpdateComponent(cce, cc, elements))
    ELSE IF unvisited = {}
         THEN cce
         ELSE TraverseFrom(bs, unvisited \ {Min(unvisited)}, {Min(unvisited)},
                           cc + 1, cce)

\* ConnectedComponentsModel().load(args.input), line 172: a model that
\* find_connected_components wrote.
InitDC ==
    /\ \E bs \in DetectInputs :
          /\ id_to_cc = ConstructIdToCc(
                            TraverseFrom(bs, BucketIds(bs), {}, -1, << >>),
                            NumElements(bs))
          /\ id_to_buckets = ElementToBuckets(bs)
    /\ args_edges \in EdgeModes
    /\ args_algorithm \in Algorithms
    /\ args_no_spark \in BOOLEAN
    /\ ccs = << >>
    /\ fat_ccs = << >>
    /\ graphs = << >>
    /\ communities = << >>
    /\ detector_calls = << >>
    /\ saved = NoModel
    /\ error = NoError
    /\ pc_dc = "load"
    /\ IdleScan
    /\ IdleCC
    /\ IdleTree

\* total_nvertices = buckmat.shape[0], line 180
total_nvertices == Cardinality(DOMAIN id_to_buckets)

\* line 181
linear == args_edges \in {"linear", "1"}

\* lines 174-176: the values of the dict ccs, in insertion order (the order
\* of each component's first element), each list in increasing id order
CcsValues(idcc) ==
    LET firsts == {i \in DOMAIN idcc : \A j \in DOMAIN idcc : j < i => idcc[j] # idcc[i]}
        order == SortedSeq(firsts)
    IN [k \in DOMAIN order |->
           SortedSeq({i \in DOMAIN idcc : idcc[i] = idcc[order[k]]})]

\* lines 172-186
GroupByComponent ==
    /\ pc_dc = "load"
    /\ ccs' = CcsValues(id_to_cc)
    /\ pc_dc' = "classify"
    /\ UNCHANGED <<args_edges, args_algorithm, args_no_spark, fat_ccs, graphs,
                   communities, detector_calls, saved, error>>
    /\ UNCHANGED <<ccVars, scanVars, modelVars, treeVars>>

IsPair(v) == Len(v) = 2

IsFat(v) == Len(v) > 2

\* lines 188-193: size 1 is skipped, size 2 is a community as it is
TrivialCommunities(cs) == SelectSeq(cs, IsPair)

\* lines 187-195
Classify ==
    /\ pc_dc = "classify"
    /\ communities' = communities \o TrivialCommunities(ccs)
    /\ fat_ccs' = SelectSeq(ccs, IsFat)
    /\ pc_dc' = "build"
    /\ UNCHANGED <<args_edges, args_algorithm, args_no_spark, ccs, graphs,
                   detector_calls, saved, error>>
    /\ UNCHANGED <<ccVars, scanVars, modelVars, treeVars>>

RECURSIVE Flatten(_)
Flatten(ss) == IF ss = << >> THEN << >> ELSE Head(ss) \o Flatten(Tail(ss))

\* bucket_weights = buckmat.sum(axis=0), line 200: the column sum
BucketWeight(b) ==
    Cardinality({e \in DOMAIN id_to_buckets : b \in Range(id_to_buckets[e])})

\* buckmat_csc.indices[indptr[bucket]:indptr[bucket + 1]], lines 216-217
BuckVerts(b) ==
    SortedSeq({e \in DOMAIN id_to_buckets : b \in Range(id_to_buckets[e])})

\* the buckets of the component's elements, lines 202-207 and 212-214
TouchedBuckets(vertices) ==
    UNION {Range(id_to_buckets[vertices[k]]) : k \in DOMAIN vertices}

\* lines 202-208: one edge per incidence, to the bucket's vertex
LinearEdges(vertices) ==
    Flatten([k \in DOMAIN vertices |->
        [j \in DOMAIN id_to_buckets[vertices[k]] |->
            <<vertices[k], id_to_buckets[vertices[k]][j] + total_nvertices>>]])

\* lines 199-205
LinearWeights(vertices) ==
    Flatten([k \in DOMAIN vertices |->
        [j \in DOMAIN id_to_buckets[vertices[k]] |->
            BucketWeight(id_to_buckets[vertices[k]][j])]])

\* A bug the mode-equivalence claim must notice: buckverts[i + 2:].
PairsSkippingNeighbour(bv) ==
    Flatten([i \in DOMAIN bv |->
        [j \in 1..(IF Len(bv) - i - 1 > 0 THEN Len(bv) - i - 1 ELSE 0) |->
            <<bv[i], bv[i + 1 + j]>>]])

\* lines 218-220: every pair of the bucket's elements
Pairs(bv) ==
    Flatten([i \in DOMAIN bv |->
        [j \in 1..(Len(bv) - i) |-> <<bv[i], bv[i + j]>>]])

\* lines 215-220
QuadraticEdges(vertices) ==
    LET bs == SortedSeq(TouchedBuckets(vertices))
    IN Flatten([k \in DOMAIN bs |-> Pairs(BuckVerts(bs[k]))])

\* lines 198-208, 222-225. A vertex name is the decimal string of an id; the
\* model keeps the id the string spells (str and int undo each other on ids).
LinearGraph(vertices) ==
    [names |-> vertices \o
                  SortedSeq({b + total_nvertices : b \in TouchedBuckets(vertices)}),
     edges |-> LinearEdges(vertices),
     edge_weights |-> LinearWeights(vertices)]

\* lines 210-225
QuadraticGraph(vertices) ==
    [names |-> vertices,
     edges |-> QuadraticEdges(vertices),
     edge_weights |-> None]

\* lines 196-226: one turn of the loop over fat_ccs
BuildGraph ==
    /\ pc_dc = "build"
    /\ Len(graphs) < Len(fat_ccs)
    /\ LET vertices == fat_ccs[Len(graphs) + 1]
       IN graphs' = Append(graphs, IF linear THEN LinearGraph(vertices)
                                             ELSE QuadraticGraph(vertices))
    /\ UNCHANGED <<args_edges, args_algorithm, args_no_spark, ccs, fat_ccs,
                   communities, detector_calls, saved, error, pc_dc>>
    /\ UNCHANGED <<ccVars, scanVars, modelVars, treeVars>>

\* lines 227-229, 232-234: the detector is created once all graphs are
\* built; __init__ (lines 243-245) only stores its arguments. With no graph
\* the generator of line 234 yields nothing.
CreateDetector ==
    /\ pc_dc = "build"
    /\ Len(graphs) = Len(fat_ccs)
    /\ pc_dc' = IF args_no_spark /\ graphs = << >> THEN "log" ELSE "detect"
    /\ UNCHANGED <<args_edges, args_algorithm, args_no_spark, ccs, fat_ccs,
                   graphs, communities, detector_calls, saved, error>>
    /\ UNCHANGED <<ccVars, scanVars, modelVars, treeVars>>

\* result.membership: the clustering the algorithm returns is opaque; it is
\* any partition of the graph's vertices. Clusters are numbered in the order
\* of their first vertex (the membership vectors igraph builds are dense).
RECURSIVE Memberships(_)
Memberships(n) ==
    IF n = 0 THEN {<< >>}
    ELSE UNION {{Append(m, k) : k \in 0..(IF m = << >> THEN 0 ELSE Max(Range(m)) + 1)}
                   : m \in Memberships(n - 1)}

\* the names of the vertices of cluster c, in vertex order
ClusterNames(names, memb, c) ==
    LET idx == SortedSeq({i \in DOMAIN memb : memb[i] = c})
    IN [j \in DOMAIN idx |-> names[idx[j]]]

\* lines 262-266: one list per cluster, of int(graph.vs[i]["name"])
DetectorOutput(graph, memb) ==
    [c \in 1..(Max(Range(memb)) + 1) |-> ClusterNames(graph.names, memb, c - 1)]

\* what detector(graph) can return when the algorithm exists and ends
DetectorOutputs(graph) ==
    {DetectorOutput(graph, memb) : memb \in Memberships(Len(graph.names))}

\* lines 233-234, 247-266: the next graph is clustered, its groups appended
DetectNext ==
    /\ pc_dc = "detect"
    /\ args_no_spark
    /\ args_algorithm \in KnownAlgorithms
    /\ Len(detector_calls) < Len(graphs)
    /\ LET k == Len(detector_calls) + 1
       IN /\ \E out \in DetectorOutputs(graphs[k]) :
                communities' = communities \o out
          /\ detector_calls' = Append(detector_calls, k)
          /\ pc_dc' = IF k = Len(graphs) THEN "log" ELSE "detect"
    /\ UNCHANGED <<args_edges, args_algorithm, args_no_spark, ccs, fat_ccs,
                   graphs, saved, error>>
    /\ UNCHANGED <<ccVars, scanVars, modelVars, treeVars>>

\* line 248: getattr raises AttributeError on the first call; nothing in
\* lines 228-239 catches it, so detect_communities ends there.
DetectUnknownAlgorithm ==
    /\ pc_dc = "detect"
    /\ args_no_spark
    /\ args_algorithm \notin KnownAlgorithms
    /\ Len(detector_calls) < Len(graphs)
    /\ detector_calls' = Append(detector_calls, Len(detector_calls) + 1)
    /\ error' = "AttributeError"
    /\ pc_dc' = "failed"
    /\ UNCHANGED <<args_edges, args_algorithm, args_no_spark, ccs, fat_ccs,
                   graphs, communities, saved>>
    /\ UNCHANGED <<ccVars, scanVars, modelVars, treeVars>>

\* line 257: action(**kwargs, **self.config) raises (an option the algorithm
\* does not take, a failure inside the algorithm); nothing catches it.
DetectRaises ==
    /\ pc_dc = "detect"
    /\ args_no_spark
    /\ args_algorithm \in KnownAlgorithms
    /\ Len(detector_calls) < Len(graphs)
    /\ detector_calls' = Append(detector_calls, Len(detector_calls) + 1)
    /\ error' = "DetectorError"
    /\ pc_dc' = "failed"
    /\ UNCHANGED <<args_edges, args_algorithm, args_no_spark, ccs, fat_ccs,
                   graphs, communities, saved>>
    /\ UNCHANGED <<ccVars, scanVars, modelVars, treeVars>>

\* what flatMap(detector).collect() can return: the groups of every graph,
\* in the order of the graphs
RECURSIVE AllDetectorOutputs(_)
AllDetectorOutputs(gs) ==
    IF gs = << >> THEN {<< >>}
    ELSE {out \o rest : out \in DetectorOutputs(Head(gs)),
                        rest \in AllDetectorOutputs(Tail(gs))}

\* lines 230-231: every graph is a task of one Spark job
DetectSpark ==
    /\ pc_dc = "detect"
    /\ ~args_no_spark
    /\ args_algorithm \in KnownAlgorithms \/ graphs = << >>
    /\ \E outs \in AllDetectorOutputs(graphs) :
          communities' = communities \o outs
    /\ detector_calls' = [k \in 1..Len(graphs) |-> k]
    /\ pc_dc' = "log"
    /\ UNCHANGED <<args_edges, args_algorithm, args_no_spark, ccs, fat_ccs,
                   graphs, saved, error>>
    /\ UNCHANGED <<ccVars, scanVars, modelVars, treeVars>>

\* lines 230-231: a task raises (lines 248, 257); the job is aborted and
\* collect() raises in the driver, where nothing catches it.
DetectSparkFails ==
    /\ pc_dc = "detect"
    /\ ~args_no_spark
    /\ graphs # << >>
    /\ detector_calls' = [k \in 1..Len(graphs) |-> k]
    /\ error' = "SparkJobAborted"
    /\ pc_dc' = "failed"
    /\ UNCHANGED <<args_edges, args_algorithm, args_no_spark, ccs, fat_ccs,
                   graphs, communities, saved>>
    /\ UNCHANGED <<ccVars, scanVars, modelVars, treeVars>>

\* lines 235-239: the statistics are logged and the model is written
WriteCommunities ==
    /\ pc_dc = "log"
    /\ communities # << >>
    /\ saved' = communities
    /\ pc_dc' = "done"
    /\ UNCHANGED <<args_edges, args_algorithm, args_no_spark, ccs, fat_ccs,
                   graphs, communities, detector_calls, error>>
    /\ UNCHANGED <<ccVars, scanVars, modelVars, treeVars>>

\* line 237: max() of an empty sequence raises ValueError
WriteFailsOnEmpty ==
    /\ pc_dc = "log"
    /\ communities = << >>
    /\ error' = "ValueError"
    /\ pc_dc' = "failed"
    /\ UNCHANGED <<args_edges, args_algorithm, args_no_spark, ccs, fat_ccs,
                   graphs, communities, detector_calls, saved>>
    /\ UNCHANGED <<ccVars, scanVars, modelVars, treeVars>>

NextDC ==
    \/ GroupByComponent
    \/ Classify
    \/ BuildGraph
    \/ CreateDetector
    \/ DetectNext
    \/ DetectUnknownAlgorithm
    \/ DetectRaises
    \/ DetectSpark
    \/ DetectSparkFails
    \/ WriteCommunities
    \/ WriteFailsOnEmpty

\* detect_communities runs to its end or to the exception that ends it.
SpecDC == InitDC /\ [][NextDC]_vars /\ WF_vars(NextDC)

----------------------------------------------------------------------------
\* Properties of detect_communities

\* the element-id universe 0..N-1
ElementUniverse == DOMAIN id_to_buckets

\* how many times id x occurs in the communities cs
Occurrences(x, cs) ==
    Cardinality({i \in DOMAIN Flatten(cs) : Flatten(cs)[i] = x})

IdsOf(cs) == UNION {Range(cs[k]) : k \in DOMAIN cs}

RunCompleted == pc_dc = "done"

RunEnded == pc_dc \in {"done", "failed"}

\* C2: once detect_communities has completed, the communities of the written
\* model are a partition of the element-id universe: every element id is in
\* exactly one community, and no other id is in any community.
C2_CommunitiesPartitionUniverse ==
    RunCompleted =>
        /\ \A x \in ElementUniverse : Occurrences(x, saved) = 1
        /\ IdsOf(saved) \subseteq ElementUniverse

\* the components of one element
SingletonComponents == {k \in DOMAIN ccs : Len(ccs[k]) = 1}

\* C3: for every component of size 1 the written model holds exactly one
\* community, of size 1, with that element; no graph holds the element and
\* the detector is not called for it.
C3_SingletonCommunityEmitted ==
    RunCompleted =>
        \A k \in SingletonComponents :
            /\ Cardinality({c \in DOMAIN saved : saved[c] = ccs[k]}) = 1
            /\ Occurrences(ccs[k][1], saved) = 1
            /\ \A g \in DOMAIN graphs : ccs[k][1] \notin Range(graphs[g].names)

\* C4: in linear mode every id of every group the detector returned, and
\* every id the run stores, is an element id: the bucket vertices' ids
\* (bucket id + number of elements) are not among them.
C4_OnlyElementIdsInGroups ==
    linear =>
        /\ IdsOf(communities) \subseteq ElementUniverse
        /\ saved # NoModel => IdsOf(saved) \subseteq ElementUniverse

DetectorFailed == error \in {"AttributeError", "DetectorError", "SparkJobAborted"}

\* C6: when the detector call has failed for one graph (the algorithm
\* exists) and there are sibling graphs, the run still ends with the detector
\* called on every graph and with a written model that keeps the communities
\* produced so far.
C6_DetectorFailureIsolated ==
    (RunEnded /\ DetectorFailed /\ args_algorithm \in KnownAlgorithms
        /\ Len(graphs) >= 2) =>
        /\ Len(detector_calls) = Len(graphs)
        /\ saved # NoModel
        /\ \A k \in DOMAIN communities : communities[k] \in Range(saved)

\* C7: with an unknown algorithm name the run fails before any graph is
\* built: no graph exists, the detector is never called on a graph, and the
\* run does not complete.
C7_UnknownAlgorithmFailsFirst ==
    args_algorithm \notin KnownAlgorithms /\ pc_dc # "idle" =>
        /\ graphs = << >>
        /\ detector_calls = << >>
        /\ ~RunCompleted

\* the vertices an undirected path links to those of S
RECURSIVE PathClosure(_, _)
PathClosure(S, edges) ==
    LET T == S \cup {e[2] : e \in {f \in Range(edges) : f[1] \in S}}
               \cup {e[1] : e \in {f \in Range(edges) : f[2] \in S}}
    IN IF T = S THEN S ELSE PathClosure(T, edges)

Connected(graph, x, y) == y \in PathClosure({x}, graph.edges)

AllBuckets == UNION {Range(id_to_buckets[e]) : e \in DOMAIN id_to_buckets}

SmallBuckets == \A b \in AllBuckets : BucketWeight(b) <= 2

\* C9: when every bucket has at most 2 elements, for every component of 3
\* and more elements the graph that was built is the graph of the selected
\* mode, and any two elements of the component are linked by a path in the
\* linear-mode graph exactly when they are in the quadratic-mode graph.
C9_ModesAgreeOnConnectivity ==
    SmallBuckets =>
        \A k \in DOMAIN graphs :
            LET vertices == fat_ccs[k]
                gl == LinearGraph(vertices)
                gq == QuadraticGraph(vertices)
            IN /\ graphs[k] = IF linear THEN gl ELSE gq
               /\ \A x, y \in Range(vertices) :
                     Connected(gl, x, y) <=> Connected(gq, x, y)

\* a component of 3 elements chained by buckets of 2, built in quadratic mode
C9_Witness ==
    /\ SmallBuckets
    /\ ~linear
    /\ pc_dc = "detect"
    /\ Len(graphs) = 1
    /\ Len(fat_ccs[1]) >= 3
    /\ Len(graphs[1].edges) >= 2

----------------------------------------------------------------------------
\* find_connected_components from the row scan on, lines 58-129

\* Largest number of hashtables, of rows in the store, of band values.
MaxHashtables == 2

MaxScanRows == 4

MaxBand == 2

\* lines 58-67. A sha1 is named by the order in which the scan first meets
\* it; band values are 1..MaxBand.
InitScan ==
    /\ num_hashtables \in 0..MaxHashtables
    /\ hashtable = 0
    /\ rows_left = MaxScanRows
    /\ band = NoBand
    /\ bucket = << >>
    /\ element_ids = << >>
    /\ seen_bands = {}
    /\ ungrouped = FALSE
    /\ cc_error = NoError
    /\ buckets = << >>
    /\ element_to_buckets = << >>
    /\ unvisited_buckets = {}
    /\ pending = {}
    /\ cc_id = 0
    /\ connected_components_element = << >>
    /\ expanded = << >>
    /\ pc_cc = "tables"
    /\ id_to_cc = << >>
    /\ id_to_buckets = << >>
    /\ IdleDC
    /\ IdleTree

\* lines 68-72: the rows of the next hashtable are asked for
OpenHashtable ==
    /\ pc_cc = "tables"
    /\ hashtable < num_hashtables
    /\ band' = NoBand
    /\ bucket' = << >>
    /\ seen_bands' = {}
    /\ pc_cc' = "rows"
    /\ UNCHANGED <<num_hashtables, hashtable, rows_left, element_ids, ungrouped,
                   cc_error>>
    /\ UNCHANGED <<buckets, element_to_buckets, unvisited_buckets, pending, cc_id,
                   connected_components_element, expanded>>
    /\ UNCHANGED <<modelVars, dcVars, treeVars>>

\* dict.setdefault(key, value)
SetDefault(d, key, value) ==
    IF key \in DOMAIN d THEN d ELSE d @@ (key :> value)

\* lines 73-82: one row (sha1, value) of the hashtable
FetchRow ==
    /\ pc_cc = "rows"
    /\ rows_left > 0
    /\ \E sha1 \in 0..Cardinality(DOMAIN element_ids), value \in 1..MaxBand :
          LET ids == SetDefault(element_ids, sha1, Cardinality(DOMAIN element_ids))
              eid == ids[sha1]
          IN /\ element_ids' = ids
             /\ IF value # band
                THEN /\ buckets' = IF band # NoBand THEN Append(buckets, bucket)
                                                  ELSE buckets
                     /\ bucket' = IF band # NoBand THEN <<eid>>
                                                 ELSE Append(bucket, eid)
                     /\ band' = value
                     /\ seen_bands' = IF band # NoBand THEN seen_bands \cup {band}
                                                     ELSE seen_bands
                     /\ ungrouped' = (ungrouped \/ value \in seen_bands)
                ELSE /\ bucket' = Append(bucket, eid)
                     /\ UNCHANGED <<buckets, band, seen_bands, ungrouped>>
    /\ rows_left' = rows_left - 1
    /\ UNCHANGED <<num_hashtables, hashtable, cc_error, pc_cc>>
    /\ UNCHANGED <<element_to_buckets, unvisited_buckets, pending, cc_id,
                   connected_components_element, expanded>>
    /\ UNCHANGED <<modelVars, dcVars, treeVars>>

\* lines 73, 83-86: the hashtable has no more rows; the open bucket is kept
CloseHashtable ==
    /\ pc_cc = "rows"
    /\ buckets' = IF bucket # << >> THEN Append(buckets, bucket) ELSE buckets
    /\ hashtable' = hashtable + 1
    /\ pc_cc' = "tables"
    /\ UNCHANGED <<num_hashtables, rows_left, band, bucket, element_ids,
                   seen_bands, ungrouped, cc_error>>
    /\ UNCHANGED <<element_to_buckets, unvisited_buckets, pending, cc_id,
                   connected_components_element, expanded>>
    /\ UNCHANGED <<modelVars, dcVars, treeVars>>

\* lines 88-109: the incidence index, the statistics, the traversal's state
StartTraversal ==
    /\ pc_cc = "tables"
    /\ hashtable = num_hashtables
    /\ buckets # << >>
    /\ element_to_buckets' = ElementToBuckets(buckets)
    /\ unvisited_buckets' = BucketIds(buckets)
    /\ pending' = {}
    /\ cc_id' = 0
    /\ connected_components_element' = << >>
    /\ expanded' = [b \in BucketIds(buckets) |-> 0]
    /\ pc_cc' = "outer"
    /\ UNCHANGED <<buckets, scanVars, modelVars, dcVars, treeVars>>

\* line 96: buckets[0] of an empty list raises IndexError
StatisticsFail ==
    /\ pc_cc = "tables"
    /\ hashtable = num_hashtables
    /\ buckets = << >>
    /\ cc_error' = "IndexError"
    /\ pc_cc' = "failed"
    /\ UNCHANGED <<num_hashtables, hashtable, rows_left, band, bucket, element_ids,
                   seen_bands, ungrouped>>
    /\ UNCHANGED <<buckets, element_to_buckets, unvisited_buckets, pending, cc_id,
                   connected_components_element, expanded>>
    /\ UNCHANGED <<modelVars, dcVars, treeVars>>

NextScan ==
    \/ OpenHashtable
    \/ FetchRow
    \/ CloseHashtable
    \/ StartTraversal
    \/ StatisticsFail
    \/ SeedComponent
    \/ ExpandBucket
    \/ CloseComponent
    \/ WriteModel

\* find_connected_components is one sequential pass.
SpecScan == InitScan /\ [][NextScan]_vars /\ WF_vars(NextScan)

ModelWritten == pc_cc = "done"

\* C5: when, within one hashtable, a band value comes back after its run of
\* rows has ended, no Component Model is written and the run ends with the
\* MalformedInput error.
C5_UngroupedRowsFailFast ==
    ungrouped =>
        /\ ~ModelWritten
        /\ pc_cc = "failed" => cc_error = "MalformedInput"

----------------------------------------------------------------------------
\* CommunitiesModel: _generate_tree and _load_tree, lines 148-167

\* Largest number of communities of a model, and of ids of a community.
MaxCommunities == 2

MaxCommunitySize == 2

\* ids a community can hold: two element ids and a bucket vertex's id
SampleIds == {0, 1, 6}

SeqsUpTo(S, n) == UNION {[1..m -> S] : m \in 0..n}

\* construct, lines 148-151: any list of communities
InitTree ==
    /\ model_communities \in SeqsUpTo(SeqsUpTo(SampleIds, MaxCommunitySize),
                                       MaxCommunities)
    /\ tree = NoTree
    /\ loaded_communities = << >>
    /\ pc_tree = "constructed"
    /\ IdleScan
    /\ IdleCC
    /\ id_to_cc = << >>
    /\ id_to_buckets = << >>
    /\ IdleDC

\* numpy.zeros(n)
Zeros(n) == [i \in 1..n |-> 0]

\* data[pos:pos + len(community)] = community, line 164 (uint32 keeps the
\* ids, which are not negative and far below 2^32)
WriteSlice(data, pos, community) ==
    [p \in DOMAIN data |->
        IF pos < p /\ p <= pos + Len(community) THEN community[p - pos] ELSE data[p]]

\* A bug the round trip must notice: pos = len(community).
NextPosForgetsPos(pos, community) == Len(community)

\* pos += len(community), line 165
NextPos(pos, community) == pos + Len(community)

\* lines 162-166: the loop over the communities, from the i-th on
RECURSIVE GenerateLoop(_, _, _, _, _)
GenerateLoop(cs, i, pos, data, indptr) ==
    IF i > Len(cs) THEN [data |-> data, indptr |-> indptr]
    ELSE GenerateLoop(cs, i + 1, NextPos(pos, cs[i]),
                      WriteSlice(data, pos, cs[i]),
                      [indptr EXCEPT ![i + 1] = NextPos(pos, cs[i])])

\* _generate_tree, lines 158-167 (without the element table)
GenerateTreeOf(cs) ==
    GenerateLoop(cs, 1, 0, Zeros(SumLen(cs)), Zeros(Len(cs) + 1))

\* data[i:j] of a Python sequence
Slice(data, i, j) ==
    LET lo == IF i < Len(data) THEN i ELSE Len(data)
        hi == IF j < Len(data) THEN j ELSE Len(data)
    IN IF hi <= lo THEN << >> ELSE [p \in 1..(hi - lo) |-> data[lo + p]]

\* _load_tree, lines 155-156: zip(indptr, indptr[1:])
LoadTreeOf(t) ==
    [k \in 1..(Len(t.indptr) - 1) |-> Slice(t.data, t.indptr[k], t.indptr[k + 1])]

\* save(): the tree of the constructed model
GenerateTree ==
    /\ pc_tree = "constructed"
    /\ tree' = GenerateTreeOf(model_communities)
    /\ pc_tree' = "saved"
    /\ UNCHANGED <<model_communities, loaded_communities>>
    /\ UNCHANGED <<scanVars, ccVars, modelVars, dcVars>>

\* load(): a new model filled from the tree
LoadTree ==
    /\ pc_tree = "saved"
    /\ loaded_communities' = LoadTreeOf(tree)
    /\ pc_tree' = "loaded"
    /\ UNCHANGED <<model_communities, tree>>
    /\ UNCHANGED <<scanVars, ccVars, modelVars, dcVars>>

NextTree ==
    \/ GenerateTree
    \/ LoadTree

SpecTree == InitTree /\ [][NextTree]_vars /\ WF_vars(NextTree)

\* C8: the tree's data is the concatenation of the communities, its indptr
\* has one entry more than there are communities, starts at 0 and never
\* decreases; loading the tree gives back as many communities, in the same
\* order, each with the same ids.
C8_TreeRoundTrip ==
    /\ pc_tree \in {"saved", "loaded"} =>
          /\ tree.data = Flatten(model_communities)
          /\ Len(tree.indptr) = Len(model_communities) + 1
          /\ tree.indptr[1] = 0
          /\ \A k \in 1..Len(model_communities) : tree.indptr[k] <= tree.indptr[k + 1]
          /\ \A k \in 1..Len(model_communities) :
                tree.indptr[k + 1] - tree.indptr[k] = Len(model_communities[k])
    /\ pc_tree = "loaded" =>
          /\ Len(loaded_communities) = Len(model_communities)
          /\ \A k \in DOMAIN model_communities :
                loaded_communities[k] = model_communities[k]

\* two different non-empty communities saved and loaded
C8_Witness ==
    /\ pc_tree = "loaded"
    /\ model_communities = << <<0, 1>>, <<6>> >>
    /\ tree.data = <<0, 1, 6>>
    /\ tree.indptr = <<0, 2, 3>>
    /\ loaded_communities = << <<0, 1>>, <<6>> >>

====
